---- MODULE Spec2Model ----
(***************************************************************************)
(* A model of the FFmpeg processing API: the two request handlers of       *)
(* main.py (process_files, process_files_json), the FileManager of         *)
(* services/file_manager.py and the FFmpegProcessor of                     *)
(* services/ffmpeg_processor.py.                                           *)
(*                                                                         *)
(* Text (templates, file names, paths) is a sequence of one-character      *)
(* strings, so that substring tests, replacement, quoting and the regular  *)
(* expressions of the code are computed, never assumed.  A random          *)
(* identifier (uuid4) is one opaque word character drawn from a small set. *)
(***************************************************************************)
EXTENDS Integers, Sequences, FiniteSets, TLC

\* ------------------------------------------------------------------ bounds

\* The longest upload list a request carries.
MaxFiles == 2

\* The longest file name of the exhaustive staging specification.
MaxNameLen == 3

\* The requests the server may be handling.
MaxRequests == 2

\* ------------------------------------------------------------------- text

Lower == <<"a","b","c","d","e","f","g","h","i","j","k","l","m",
           "n","o","p","q","r","s","t","u","v","w","x","y","z">>

Upper == <<"A","B","C","D","E","F","G","H","I","J","K","L","M",
           "N","O","P","Q","R","S","T","U","V","W","X","Y","Z">>

Digits == {"0","1","2","3","4","5","6","7","8","9"}

\* The values uuid.uuid4() takes: opaque runs of hexadecimal digits, "u1",
\* "u2", ..., one for each request there may be, so that every request can
\* draw a value no other has drawn.
RandomHex == {"u" \o ToString(k) : k \in 1..MaxRequests}

Range(f) == {f[i] : i \in DOMAIN f}

\* \w of the re module.
WordChars == Range(Lower) \cup Range(Upper) \cup Digits \cup {"_"} \cup RandomHex

\* \s of the re module and the characters str.strip() removes.
Whitespace == {" ", "\t", "\n", "\r"}

\* str.lower(), one character.
LowerChar(c) ==
    IF \E i \in 1..26 : Upper[i] = c
    THEN Lower[CHOOSE i \in 1..26 : Upper[i] = c]
    ELSE c

\* str.lower()
ToLower(s) == [i \in 1..Len(s) |-> LowerChar(s[i])]

\* s[i:].startswith(p)
StartsWithAt(s, p, i) ==
    /\ i >= 1
    /\ i + Len(p) - 1 <= Len(s)
    /\ \A k \in 1..Len(p) : s[i + k - 1] = p[k]

\* str.startswith
StartsWith(s, p) == StartsWithAt(s, p, 1)

\* The 'in' operator on str, for a non-empty p.
Contains(s, p) == \E i \in 1..Len(s) : StartsWithAt(s, p, i)

\* The least element of a non-empty set of integers.
Min(S) == CHOOSE k \in S : \A m \in S : k <= m

\* s[i:] with every non-overlapping occurrence of old replaced, leftmost
\* first.
RECURSIVE ReplaceFrom(_, _, _, _)
ReplaceFrom(s, old, new, i) ==
    LET found == {k \in i..Len(s) : StartsWithAt(s, old, k)}
    IN  IF found = {} THEN SubSeq(s, i, Len(s))
        ELSE SubSeq(s, i, Min(found) - 1) \o new
             \o ReplaceFrom(s, old, new, Min(found) + Len(old))

\* str.replace(old, new): every non-overlapping occurrence, leftmost first.
Replace(s, old, new) == ReplaceFrom(s, old, new, 1)

RECURSIVE LStrip(_, _)
LStrip(s, chars) ==
    IF s # <<>> /\ Head(s) \in chars THEN LStrip(Tail(s), chars) ELSE s

RECURSIVE RStrip(_, _)
RStrip(s, chars) ==
    IF s # <<>> /\ s[Len(s)] \in chars
    THEN RStrip(SubSeq(s, 1, Len(s) - 1), chars)
    ELSE s

\* str.strip()
Strip(s) == LStrip(RStrip(s, Whitespace), Whitespace)

\* The text of length <= n over an alphabet.
RECURSIVE TextUpTo(_, _)
TextUpTo(alphabet, n) ==
    IF n = 0 THEN {<<>>}
    ELSE LET shorter == TextUpTo(alphabet, n - 1)
         IN  shorter \cup {Append(t, c) : t \in shorter, c \in alphabet}

\* Optional[...]: None, or one value.
None == <<>>
Some(x) == <<x>>

\* ------------------------------------------------------------------ paths

Sep == "/"

\* s[i:].split("/")
RECURSIVE SplitFrom(_, _)
SplitFrom(s, i) ==
    LET found == {k \in i..Len(s) : s[k] = Sep}
    IN  IF found = {} THEN <<SubSeq(s, i, Len(s))>>
        ELSE <<SubSeq(s, i, Min(found) - 1)>> \o SplitFrom(s, Min(found) + 1)

\* str.split("/")
Split(s) == SplitFrom(s, 1)

\* The parts pathlib keeps of a POSIX path: the empty and "." components dropped.
PathParts(s) == SelectSeq(Split(s), LAMBDA part : part # <<>> /\ part # <<".">>)

\* pathlib.PurePosixPath(s).name: the last part, "" when there is none.
PathName(s) ==
    LET parts == PathParts(s)
    IN  IF parts = <<>> THEN <<>> ELSE parts[Len(parts)]

\* os.path.join(a, b) on POSIX.
PathJoin(a, b) ==
    IF b # <<>> /\ Head(b) = Sep THEN b
    ELSE IF a = <<>> \/ a[Len(a)] = Sep THEN a \o b
    ELSE a \o <<Sep>> \o b

\* os.path.normpath of an absolute path, as its list of components:
\* "" and "." dropped, ".." removing the component before it.
RECURSIVE Resolve(_, _)
Resolve(parts, acc) ==
    IF parts = <<>> THEN acc
    ELSE IF Head(parts) = <<>> \/ Head(parts) = <<".">>
         THEN Resolve(Tail(parts), acc)
    ELSE IF Head(parts) = <<".", ".">>
         THEN Resolve(Tail(parts),
                      IF acc = <<>> THEN acc ELSE SubSeq(acc, 1, Len(acc) - 1))
    ELSE Resolve(Tail(parts), Append(acc, Head(parts)))

NormParts(path) == Resolve(Split(path), <<>>)

\* path names a file or directory strictly below dir.
StrictlyInside(path, dir) ==
    LET p == NormParts(path)
        d == NormParts(dir)
    IN  /\ Len(p) > Len(d)
        /\ SubSeq(p, 1, Len(d)) = d

\* ----------------------------------------------------------- file system

\* The file system: the directories that exist and the regular files with
\* their contents, a set of <<path, bytes>> with one entry per path.
EmptyFS == [dirs |-> {}, files |-> {}]

FileExists(fsys, path) == \E f \in fsys.files : f[1] = path

\* The bytes of the file at path, None when there is none.
FileContent(fsys, path) ==
    IF FileExists(fsys, path)
    THEN Some((CHOOSE f \in fsys.files : f[1] = path)[2])
    ELSE None

\* open(path, "wb").write(content): creates the file or replaces its bytes.
WriteFile(fsys, path, content) ==
    [fsys EXCEPT !.files = {f \in @ : f[1] # path} \cup {<<path, content>>}]

\* os.makedirs(dir, exist_ok=True)
MakeDirs(fsys, dir) == [fsys EXCEPT !.dirs = @ \cup {dir}]

\* os.path.exists
PathExists(fsys, path) == path \in fsys.dirs \/ FileExists(fsys, path)

\* shutil.rmtree(dir): the directory and everything below it.
RmTree(fsys, dir) ==
    [dirs  |-> {d \in fsys.dirs : d # dir /\ ~StrictlyInside(d, dir)},
     files |-> {f \in fsys.files : ~StrictlyInside(f[1], dir)}]

\* ------------------------------------------------------------ FileManager

\* FileManager.base_temp_dir (tempfile.gettempdir())
base_temp_dir == <<"/","t","m","p">>

ProcessorDirName == <<"f","f","m","p","e","g","_","p","r","o","c","e","s","s","o","r">>

\* The path FileManager.create_session_dir builds for a session id.
SessionDirOf(session_id) ==
    PathJoin(PathJoin(base_temp_dir, ProcessorDirName), <<session_id>>)

\* FileManager.create_session_dir, its effect on the file system.
create_session_dir(fsys, session_id) == MakeDirs(fsys, SessionDirOf(session_id))

\* f"file_{uuid.uuid4().hex[:8]}"
GeneratedName(rnd) == <<"f","i","l","e","_">> \o <<rnd>>

DotDot == <<".", ".">>

\* The fallback of _sanitize_filename omitted.
SanitizeNoFallback(filename, rnd) ==
    IF filename = <<>> THEN GeneratedName(rnd)
    ELSE Replace(Replace(Replace(PathName(filename), DotDot, <<>>),
                         <<"/">>, <<"_">>), <<"\\">>, <<"_">>)

\* FileManager._sanitize_filename; rnd is the uuid4 drawn when a name is
\* generated.
sanitize_filename(filename, rnd) ==
    IF filename = <<>> THEN GeneratedName(rnd)
    ELSE LET name == PathName(filename)
             safe_name == Replace(Replace(Replace(name, DotDot, <<>>),
                                          <<"/">>, <<"_">>), <<"\\">>, <<"_">>)
         IN  IF safe_name = <<>> \/ safe_name \in {<<".">>, DotDot}
             THEN GeneratedName(rnd)
             ELSE safe_name

\* str(n) for a natural number.
RECURSIVE Str(_)
Str(n) ==
    LET digit(d) == CHOOSE c \in Digits :
                        c = <<"0","1","2","3","4","5","6","7","8","9">>[d + 1]
    IN  IF n < 10 THEN <<digit(n)>> ELSE Str(n \div 10) \o <<digit(n % 10)>>

InputKey == <<"i","n","p","u","t">>

\* The placeholder names save_upload_files gives to file i (0-based) of n,
\* in the order the dict receives them.
PlaceholderNames(i, n) ==
    IF n = 1 THEN <<InputKey>>
    ELSE IF i = 0 THEN <<InputKey \o Str(i + 1), InputKey>>
    ELSE <<InputKey \o Str(i + 1)>>

\* dict[key] = value: a dict is the sequence of its <<key, value>> items in
\* insertion order; an existing key keeps its place.
DictSet(d, key, value) ==
    IF \E k \in 1..Len(d) : d[k][1] = key
    THEN [k \in 1..Len(d) |-> IF d[k][1] = key THEN <<key, value>> ELSE d[k]]
    ELSE Append(d, <<key, value>>)

DictKeys(d) == {d[k][1] : k \in 1..Len(d)}

DictGet(d, key) == (CHOOSE k \in 1..Len(d) : d[k][1] = key)

\* FileManager.save_upload_files after the first upto files: the file
\* system and the placeholder mapping.  rnds[i] is the uuid4 drawn for file i.
RECURSIVE SaveLoop(_, _, _, _, _)
SaveLoop(fsys, files, session_dir, rnds, upto) ==
    IF upto = 0 THEN [fs |-> fsys, input_files |-> <<>>]
    ELSE LET before == SaveLoop(fsys, files, session_dir, rnds, upto - 1)
             file == files[upto]
             safe_filename == sanitize_filename(file.filename, rnds[upto])
             file_path == PathJoin(session_dir, safe_filename)
             names == PlaceholderNames(upto - 1, Len(files))
             mapped == DictSet(before.input_files, names[1], file_path)
         IN  [fs |-> WriteFile(before.fs, file_path, file.content),
              input_files |-> IF Len(names) = 2
                              THEN DictSet(mapped, names[2], file_path)
                              ELSE mapped]

save_upload_files(fsys, files, session_dir, rnds) ==
    SaveLoop(fsys, files, session_dir, rnds, Len(files))

OutputPrefix == <<"o","u","t","p","u","t","_">>

\* FileManager.create_output_path
create_output_path(session_dir, extension, rnd) ==
    LET dotted == IF StartsWith(extension, <<".">>) THEN extension
                  ELSE <<".">> \o extension
    IN  PathJoin(session_dir, OutputPrefix \o <<rnd>> \o dotted)

\* FileManager.cleanup_session; fails is whether shutil.rmtree raises,
\* which the method logs and swallows, the directory left as it was.
cleanup_noop(fsys, session_dir, fails) == fsys

\* cleanup_session removing the directory all sessions are created in.
cleanup_all_sessions(fsys, session_dir, fails) ==
    IF PathExists(fsys, session_dir) /\ ~fails
    THEN RmTree(fsys, PathJoin(base_temp_dir, ProcessorDirName))
    ELSE fsys

\* cleanup_session emptying the directory without removing it.
cleanup_files_only(fsys, session_dir, fails) ==
    IF PathExists(fsys, session_dir) /\ ~fails
    THEN [fsys EXCEPT
            !.files = {f \in @ : ~StrictlyInside(f[1], session_dir)}]
    ELSE fsys

cleanup_session(fsys, session_dir, fails) ==
    IF PathExists(fsys, session_dir) /\ ~fails
    THEN RmTree(fsys, session_dir)
    ELSE fsys

\* os.path.basename
BaseName(path) == LET parts == Split(path) IN parts[Len(parts)]

\* FileManager.copy_font_to_session: dest_path and shutil.copy2; called only
\* when the font exists (see FontStep for the FileNotFoundError).
FontDest(font_path, session_dir) == PathJoin(session_dir, BaseName(font_path))

copy_font_to_session(fsys, font_path, session_dir) ==
    WriteFile(fsys, FontDest(font_path, session_dir),
              FileContent(fsys, font_path)[1])

\* -------------------------------------------------------- FFmpegProcessor

\* FFmpegProcessor.BLOCKED_ARGS
BLOCKED_ARGS ==
    {<<"-","f","i","l","t","e","r","_","c","o","m","p","l","e","x","_",
       "s","c","r","i","p","t">>,
     <<"p","i","p","e",":">>}

\* The backquote character (U+0060), which a TLA+ string cannot hold.
Backquote == "backquote"

\* FFmpegProcessor.DANGEROUS_PATTERNS: the characters of the first pattern,
\* the class of ; & | backquote and $.  The two other patterns (the opener
\* of a command substitution, and the backquote) match only text the class
\* matches.
DANGEROUS_PATTERNS == {";", "&", "|", Backquote, "$"}

\* A text matches some pattern of DANGEROUS_PATTERNS (re.search).
MatchesDangerousPattern(s) == \E i \in 1..Len(s) : s[i] \in DANGEROUS_PATTERNS

\* The characters shlex.quote leaves unquoted: [\w@%+=:,./-]
ShellSafeChars == WordChars \cup {"@", "%", "+", "=", ":", ",", ".", "/", "-"}

\* shlex.quote
quote_path(path) ==
    IF path = <<>> THEN <<"'", "'">>
    ELSE IF \A i \in 1..Len(path) : path[i] \in ShellSafeChars THEN path
    ELSE <<"'">> \o Replace(path, <<"'">>, <<"'","\"","'","\"","'">>) \o <<"'">>

\* f"{{{placeholder}}}"
Braced(name) == <<"{">> \o name \o <<"}">>

OutputPlaceholder == Braced(<<"o","u","t","p","u","t">>)

FontPlaceholder == Braced(<<"f","o","n","t">>)

\* The end of the run of word characters that starts at s[i]: the index
\* after its last character (i itself when s[i] is no word character).
RECURSIVE WordEnd(_, _)
WordEnd(s, i) ==
    IF i <= Len(s) /\ s[i] \in WordChars THEN WordEnd(s, i + 1) ELSE i

\* The name of the placeholder that starts at s[i], a match of \{(\w+)\};
\* None when none starts there.
PlaceholderAt(s, i) ==
    LET j == WordEnd(s, i + 1)
    IN  IF s[i] = "{" /\ j > i + 1 /\ j <= Len(s) /\ s[j] = "}"
        THEN Some(SubSeq(s, i + 1, j - 1))
        ELSE None

\* The elements of a set of integers in increasing order.
RECURSIVE Sorted(_)
Sorted(S) == IF S = {} THEN <<>> ELSE <<Min(S)>> \o Sorted(S \ {Min(S)})

\* re.findall(r"\{(\w+)\}", s): the names in order.  No two matches overlap,
\* a match holding one brace of each kind.
FindPlaceholders(s) ==
    LET starts == Sorted({i \in 1..Len(s) : PlaceholderAt(s, i) # None})
    IN  [k \in 1..Len(starts) |-> PlaceholderAt(s, starts[k])[1]]

\* What parse_command does: returns a resolved command, or raises.
Returned(value) ==
    [ok |-> TRUE, value |-> value, exc |-> "", error |-> "", detail |-> <<>>]

Raised(exc, error, detail) ==
    [ok |-> FALSE, value |-> <<>>, exc |-> exc, error |-> error, detail |-> detail]

\* The loop over input_files.items(): each placeholder replaced in turn.
RECURSIVE ReplaceInputs(_, _, _, _)
ReplaceInputs(text, input_files, k, quoted) ==
    IF k > Len(input_files) THEN text
    ELSE ReplaceInputs(
             Replace(text, Braced(input_files[k][1]),
                     IF quoted THEN quote_path(input_files[k][2])
                     ELSE input_files[k][2]),
             input_files, k + 1, quoted)

\* FFmpegProcessor._parse_command_string.  Which blocked argument the error
\* names is the set's iteration order: detail holds every candidate.
parse_command_string(command_template, input_files, output_path, font_path) ==
    LET blocked == {arg \in BLOCKED_ARGS : Contains(command_template, arg)}
        c1 == Replace(command_template, OutputPlaceholder, quote_path(output_path))
        c2 == IF font_path # None /\ Contains(c1, FontPlaceholder)
              THEN Replace(c1, FontPlaceholder, quote_path(font_path[1]))
              ELSE c1
        command == ReplaceInputs(c2, input_files, 1, TRUE)
        remaining_placeholders == FindPlaceholders(command)
    IN  IF blocked # {}
        THEN Raised("ValueError", "Blocked argument", blocked)
        ELSE IF remaining_placeholders # <<>>
        THEN Raised("ValueError", "Unreplaced placeholders", remaining_placeholders)
        ELSE Returned(command)

\* An element of a JSON list: a string or a number.
JStr(text) == [t |-> "str", v |-> text]
JNum(text) == [t |-> "int", v |-> text]

\* One argument of _parse_command_list with its placeholders replaced.
ResolveArg(arg, input_files, output_path, font_path) ==
    LET a1 == Replace(arg, OutputPlaceholder, output_path)
        a2 == IF font_path # None /\ Contains(a1, FontPlaceholder)
              THEN Replace(a1, FontPlaceholder,
                           Replace(font_path[1], <<"\\">>, <<"/">>))
              ELSE a1
    IN  ReplaceInputs(a2, input_files, 1, FALSE)

\* FFmpegProcessor._validate_args: the blocked arguments of the first token
\* that holds one, {} when no token does.
validate_args(args) ==
    LET bad == {k \in 1..Len(args) :
                    \E blocked \in BLOCKED_ARGS : Contains(args[k], blocked)}
    IN  IF bad = {} THEN {}
        ELSE LET first == CHOOSE k \in bad : \A m \in bad : k <= m
             IN  {blocked \in BLOCKED_ARGS : Contains(args[first], blocked)}

\* FFmpegProcessor._parse_command_list.  An element that is no string has no
\* replace method: the loop raises AttributeError at the first such element.
parse_command_list(template_list, input_files, output_path, font_path) ==
    IF \E k \in 1..Len(template_list) : template_list[k].t # "str"
    THEN Raised("AttributeError", "no attribute replace", <<>>)
    ELSE LET args == [k \in 1..Len(template_list) |->
                         ResolveArg(template_list[k].v, input_files,
                                    output_path, font_path)]
             blocked == validate_args(args)
         IN  IF blocked # {}
             THEN Raised("ValueError", "Blocked argument", blocked)
             ELSE Returned(args)

\* A command as the handlers pass it on: a str, or a list.
StringCommand(text) == [mode |-> "string", text |-> text, items |-> <<>>]
ListCommand(items) == [mode |-> "list", text |-> <<>>, items |-> items]

\* FFmpegProcessor.parse_command
parse_command(command_template, input_files, output_path, font_path) ==
    IF command_template.mode = "list"
    THEN LET r == parse_command_list(command_template.items, input_files,
                                     output_path, font_path)
         IN  IF r.ok THEN Returned(ListCommand(r.value)) ELSE r
    ELSE LET r == parse_command_string(command_template.text, input_files,
                                       output_path, font_path)
         IN  IF r.ok THEN Returned(StringCommand(r.value)) ELSE r

\* ------------------------------------------------------------- json.loads

\* The index of the first character at or after i that is no whitespace.
RECURSIVE SkipWs(_, _)
SkipWs(s, i) ==
    IF i <= Len(s) /\ s[i] \in Whitespace THEN SkipWs(s, i + 1) ELSE i

JsonError == [ok |-> FALSE, v |-> <<>>, next |-> 0]

\* A JSON string whose opening quote is before s[i]: its text, and the index
\* after its closing quote.  Of the escapes, the model's text has only the
\* three that stand for themselves.
RECURSIVE ScanString(_, _, _)
ScanString(s, i, acc) ==
    IF i > Len(s) THEN JsonError
    ELSE IF s[i] = "\"" THEN [ok |-> TRUE, v |-> JStr(acc), next |-> i + 1]
    ELSE IF s[i] = "\\"
         THEN IF i + 1 <= Len(s) /\ s[i + 1] \in {"\"", "\\", "/"}
              THEN ScanString(s, i + 2, Append(acc, s[i + 1]))
              ELSE JsonError
    ELSE IF s[i] \in {"\t", "\n", "\r"} THEN JsonError
    ELSE ScanString(s, i + 1, Append(acc, s[i]))

RECURSIVE DigitsEnd(_, _)
DigitsEnd(s, i) ==
    IF i <= Len(s) /\ s[i] \in Digits THEN DigitsEnd(s, i + 1) ELSE i

\* One element of the list at s[i]: a string or an unsigned integer (the
\* element kinds the model's commands hold).
ParseValue(s, i) ==
    IF i > Len(s) THEN JsonError
    ELSE IF s[i] = "\"" THEN ScanString(s, i + 1, <<>>)
    ELSE IF s[i] \in Digits
         THEN LET j == DigitsEnd(s, i)
              IN  IF s[i] = "0" /\ j > i + 1 THEN JsonError
                  ELSE [ok |-> TRUE, v |-> JNum(SubSeq(s, i, j - 1)), next |-> j]
    ELSE JsonError

RECURSIVE ParseElements(_, _, _)
ParseElements(s, i, acc) ==
    LET e == ParseValue(s, i)
        j == SkipWs(s, e.next)
    IN  IF ~e.ok \/ j > Len(s) THEN JsonError
        ELSE IF s[j] = ","
             THEN ParseElements(s, SkipWs(s, j + 1), Append(acc, e.v))
        ELSE IF s[j] = "]" /\ SkipWs(s, j + 1) > Len(s)
             THEN [ok |-> TRUE, v |-> Append(acc, e.v), next |-> j + 1]
        ELSE JsonError

\* json.loads of a text whose first character after whitespace is "[":
\* ok with the list, or not ok for json.JSONDecodeError.
json_loads(s) ==
    LET i == SkipWs(s, 1)
        j == SkipWs(s, i + 1)
    IN  IF i > Len(s) \/ s[i] # "[" \/ j > Len(s) THEN JsonError
        ELSE IF s[j] = "]"
             THEN IF SkipWs(s, j + 1) > Len(s)
                  THEN [ok |-> TRUE, v |-> <<>>, next |-> j + 1]
                  ELSE JsonError
        ELSE ParseElements(s, j, <<>>)

\* The handlers' choice between the list and the string form of the command
\* (main.py: parsed_command).
ParsedCommand(command) ==
    IF StartsWith(Strip(command), <<"[">>) /\ json_loads(command).ok
    THEN ListCommand(json_loads(command).v)
    ELSE StringCommand(command)

\* ------------------------------------------------- detect_output_extension

\* format_extensions of detect_output_extension
format_extensions ==
    { <<<<"m","p","4">>, <<".","m","p","4">>>>,
      <<<<"w","e","b","m">>, <<".","w","e","b","m">>>>,
      <<<<"m","k","v">>, <<".","m","k","v">>>>,
      <<<<"a","v","i">>, <<".","a","v","i">>>>,
      <<<<"m","o","v">>, <<".","m","o","v">>>>,
      <<<<"m","p","3">>, <<".","m","p","3">>>>,
      <<<<"w","a","v">>, <<".","w","a","v">>>>,
      <<<<"a","a","c">>, <<".","a","a","c">>>>,
      <<<<"f","l","a","c">>, <<".","f","l","a","c">>>>,
      <<<<"o","g","g">>, <<".","o","g","g">>>>,
      <<<<"g","i","f">>, <<".","g","i","f">>>>,
      <<<<"p","n","g">>, <<".","p","n","g">>>>,
      <<<<"j","p","g">>, <<".","j","p","g">>>>,
      <<<<"j","p","e","g">>, <<".","j","p","g">>>>,
      <<<<"w","e","b","p">>, <<".","w","e","b","p">>>> }

\* re.search(r"-f\s+(\w+)", s) tried at index i: group(1), None when the
\* pattern does not match there.
FormatFlagAt(s, i) ==
    IF ~StartsWithAt(s, <<"-","f">>, i) THEN None
    ELSE LET w == SkipWs(s, i + 2)
             e == WordEnd(s, w)
         IN  IF w > i + 2 /\ e > w THEN Some(SubSeq(s, w, e - 1)) ELSE None

\* re.search(r"-f\s+(\w+)", s): group(1) of the leftmost match, or None.
FormatFlag(s) ==
    LET hits == {i \in 1..Len(s) : FormatFlagAt(s, i) # None}
    IN  IF hits = {} THEN None
        ELSE FormatFlagAt(s, CHOOSE i \in hits : \A k \in hits : i <= k)

\* detect_output_extension looking for a single frame before it looks for
\* an MP3 codec.
DetectFrameFirst(command_template) ==
    LET format_match == FormatFlag(command_template)
        fmt == IF format_match = None THEN <<>> ELSE ToLower(format_match[1])
        lower == ToLower(command_template)
    IN  IF format_match # None /\ \E p \in format_extensions : p[1] = fmt
        THEN (CHOOSE p \in format_extensions : p[1] = fmt)[2]
        ELSE IF \/ Contains(command_template, <<"-","v","f","r","a","m","e","s"," ","1">>)
                \/ Contains(command_template, <<"-","f","r","a","m","e","s",":","v"," ","1">>)
        THEN <<".","j","p","g">>
        ELSE IF \/ Contains(lower, <<"-","a","c","o","d","e","c"," ","m","p","3">>)
                \/ Contains(lower, <<"-","c",":","a"," ","m","p","3">>)
                \/ Contains(lower, <<"l","i","b","m","p","3","l","a","m","e">>)
                \/ /\ \/ Contains(lower, <<"-","v","n">>)
                      \/ Contains(lower, <<"-","a","n">>)
                   /\ Contains(lower, <<"m","p","3">>)
        THEN <<".","m","p","3">>
        ELSE <<".","m","p","4">>

\* FFmpegProcessor.detect_output_extension
detect_output_extension(command_template) ==
    LET format_match == FormatFlag(command_template)
        fmt == IF format_match = None THEN <<>> ELSE ToLower(format_match[1])
        lower == ToLower(command_template)
    IN  IF format_match # None /\ \E p \in format_extensions : p[1] = fmt
        THEN (CHOOSE p \in format_extensions : p[1] = fmt)[2]
        ELSE IF \/ Contains(lower, <<"-","a","c","o","d","e","c"," ","m","p","3">>)
                \/ Contains(lower, <<"-","c",":","a"," ","m","p","3">>)
                \/ Contains(lower, <<"l","i","b","m","p","3","l","a","m","e">>)
        THEN <<".","m","p","3">>
        ELSE IF /\ \/ Contains(lower, <<"-","v","n">>)
                   \/ Contains(lower, <<"-","a","n">>)
                /\ Contains(lower, <<"m","p","3">>)
        THEN <<".","m","p","3">>
        ELSE IF \/ Contains(command_template,
                            <<"-","v","f","r","a","m","e","s"," ","1">>)
                \/ Contains(command_template,
                            <<"-","f","r","a","m","e","s",":","v"," ","1">>)
        THEN <<".","j","p","g">>
        ELSE <<".","m","p","4">>

\* main.py: VALID_EXTENSIONS
VALID_EXTENSIONS ==
    { <<"m","p","4">>, <<"w","e","b","m">>, <<"m","k","v">>, <<"a","v","i">>,
      <<"m","o","v">>, <<"f","l","v">>, <<"w","m","v">>, <<"m","4","v">>,
      <<"m","p","3">>, <<"w","a","v">>, <<"a","a","c">>, <<"f","l","a","c">>,
      <<"o","g","g">>, <<"m","4","a">>, <<"w","m","a">>,
      <<"g","i","f">>, <<"p","n","g">>, <<"j","p","g">>, <<"j","p","e","g">>,
      <<"w","e","b","p">>, <<"b","m","p">>, <<"t","i","f","f">> }

\* The handlers' choice with detection tried first: the caller's extension
\* used only when the template has no hint.
OutputExtDetectionFirst(output_extension, command) ==
    LET clean_ext == IF output_extension = None THEN <<>>
                     ELSE LStrip(Strip(ToLower(output_extension[1])), {"."})
        detected == detect_output_extension(command)
    IN  IF detected = <<".","m","p","4">> /\ output_extension # None
           /\ clean_ext \in VALID_EXTENSIONS
        THEN <<".">> \o clean_ext
        ELSE detected

\* The handlers' choice of the output extension (main.py: ext); the
\* caller's output_extension is None or a text.
OutputExt(output_extension, command) ==
    LET clean_ext == IF output_extension = None THEN <<>>
                     ELSE LStrip(Strip(ToLower(output_extension[1])), {"."})
    IN  IF output_extension # None /\ output_extension[1] # <<>>
           /\ clean_ext \in VALID_EXTENSIONS
        THEN <<".">> \o clean_ext
        ELSE detect_output_extension(command)

\* --------------------------------------------------------------- executor

\* FFmpegProcessor.timeout (main.py: FFMPEG_TIMEOUT), in seconds.
FFMPEG_TIMEOUT == 300

\* The (success, message, output_content) tuple execute returns.
Result(succeeded, text, code, detail, output_content) ==
    [succeeded |-> succeeded,
     message |-> [text |-> text, code |-> code, detail |-> detail],
     output_content |-> output_content]

TimedOutResult ==
    Result(FALSE, "FFmpeg command timed out after seconds", FFMPEG_TIMEOUT, "", None)

\* The except Exception branch of _execute_subprocess and _execute_shell;
\* detail is the text of the exception.
UnexpectedResult(detail) ==
    Result(FALSE, "Unexpected error during FFmpeg execution", 0, detail, None)

\* _handle_process returning the bytes it read whatever the exit code.
HandleExitedKeepsBytes(returncode, stderr, file, read_error) ==
    IF returncode # 0
    THEN Result(FALSE, "FFmpeg error (exit code)", returncode, stderr, file)
    ELSE IF file = None
    THEN Result(FALSE, "FFmpeg completed but output file was not created", 0, "", None)
    ELSE IF read_error
    THEN Result(FALSE, "Error reading output file", 0, "", None)
    ELSE Result(TRUE, "Processing completed successfully", 0, "", file)

\* _handle_process taking a zero exit for success whether or not there is an
\* output file.
HandleExitedTrustsExitCode(returncode, stderr, file, read_error) ==
    IF returncode # 0
    THEN Result(FALSE, "FFmpeg error (exit code)", returncode, stderr, None)
    ELSE IF read_error
    THEN Result(FALSE, "Error reading output file", 0, "", None)
    ELSE Result(TRUE, "Processing completed successfully", 0, "",
                IF file = None THEN Some("") ELSE file)

\* FFmpegProcessor._handle_process once communicate() has returned: file is
\* what open(output_path) finds (None: no such file), read_error whether
\* reading it raises.
handle_exited(returncode, stderr, file, read_error) ==
    IF returncode # 0
    THEN Result(FALSE, "FFmpeg error (exit code)", returncode, stderr, None)
    ELSE IF file = None
    THEN Result(FALSE, "FFmpeg completed but output file was not created", 0, "", None)
    ELSE IF read_error
    THEN Result(FALSE, "Error reading output file", 0, "", None)
    ELSE Result(TRUE, "Processing completed successfully", 0, "", file)

\* The resolved command names the path: as text of the shell command, or as
\* text of one argument.
Mentions(resolved, path) ==
    IF resolved.mode = "list"
    THEN \E k \in 1..Len(resolved.items) : Contains(resolved.items[k], path)
    ELSE Contains(resolved.text, path)

\* ----------------------------------------------------------------- main.py

\* MAX_FILE_SIZE_MB
MAX_FILE_SIZE_MB == 500

BytesPerMB == 1024 * 1024

\* DEFAULT_FONT
DEFAULT_FONT ==
    <<"/","a","p","p","/","f","o","n","t","s","/","O","p","e","n","S","a","n","s",".","t","t","f">>

\* One file of the request: UploadFile.filename, the bytes read() returns and
\* their number.
Upload(filename, content, size) ==
    [filename |-> filename, content |-> content, size |-> size]

\* size_mb > MAX_FILE_SIZE_MB, with size_mb = len(content) / (1024 * 1024)
TooLarge(file) == file.size > MAX_FILE_SIZE_MB * BytesPerMB

\* os.path.splitext(p)[0]
SplitExtRoot(p) ==
    LET seps == {k \in 1..Len(p) : p[k] = Sep}
        dots == {k \in 1..Len(p) : p[k] = "."}
        sep == IF seps = {} THEN 0 ELSE -Min({-k : k \in seps})
        dot == IF dots = {} THEN 0 ELSE -Min({-k : k \in dots})
    IN  IF dot > sep /\ \E k \in (sep + 1)..(dot - 1) : p[k] # "."
        THEN SubSeq(p, 1, dot - 1)
        ELSE p

\* output_filename of process_files
OutputFilename(files, ext) ==
    LET base_name == IF Len(files) = 1 THEN SplitExtRoot(files[1].filename)
                     ELSE <<"p","r","o","c","e","s","s","e","d">>
    IN  base_name \o <<"_","p","r","o","c","e","s","s","e","d">> \o ext

\* What a handler answers: an HTTPException raised, or a response returned.
HTTPException(status_code, detail) ==
    [kind |-> "HTTPException", status |-> status_code, detail |-> detail,
     content |-> None, filename |-> <<>>]

FileResponse(content, filename) ==
    [kind |-> "Response", status |-> 200, detail |-> "", content |-> content,
     filename |-> filename]

JsonResponse(status_code, message) ==
    [kind |-> "JSON", status |-> status_code, detail |-> message.text,
     content |-> None, filename |-> <<>>]

\* ------------------------------------------------------------------ state

Requests == 1..MaxRequests

VARIABLES
    req,               \* per request: the handler's position and its locals
    proc,              \* per request: the external process execute launched
    fs,                \* the file system
    ffmpeg_installed,  \* whether the ffmpeg binary is on the PATH
    used               \* the uuid4 values drawn for session directories

vars == <<req, proc, fs, ffmpeg_installed, used>>

\* A handler not yet called.
IdleRequest ==
    [pc |-> "idle", endpoint |-> "", files |-> <<>>, command |-> <<>>,
     output_extension |-> None, session_dir |-> None, input_files |-> <<>>,
     ext |-> <<>>, output_path |-> <<>>, session_font_path |-> None,
     parsed_command |-> StringCommand(<<>>), parse |-> None, args |-> None,
     result |-> None, response |-> None, cleaned |-> FALSE,
     rm_failed |-> FALSE]

\* No process: state is "none", "running", "exited" or "killed"; launches
\* counts the processes created for the request; at_exit is the file at the
\* output path when the process exited.
NoProcess ==
    [state |-> "none", launches |-> 0, returncode |-> 0, stderr |-> "",
     at_exit |-> None, waited |-> FALSE]

FontBytes == "font"

\* The file system before any request: the application's bundled font is
\* installed, or missing.
InitialFS == {EmptyFS, WriteFile(EmptyFS, DEFAULT_FONT, FontBytes)}

Init ==
    /\ req = [r \in Requests |-> IdleRequest]
    /\ proc = [r \in Requests |-> NoProcess]
    /\ fs \in InitialFS
    /\ ffmpeg_installed \in BOOLEAN
    /\ used = {}

\* ----------------------------------------------------------------- inputs

Endpoints == {"process_files", "process_files_json"}

NameA == <<"a">>
NamePipe == <<"p","i","p","e",":">>

\* The uploads a request of the pipeline specification draws its files from:
\* a plain one, one whose name holds a blocked text, one over the size limit.
UploadPool ==
    { Upload(NameA, "A", 1),
      Upload(NamePipe, "B", 1),
      Upload(NameA, "B", MAX_FILE_SIZE_MB * BytesPerMB + 1) }

\* The sequences of length <= n over a set.
RECURSIVE SeqUpTo(_, _)
SeqUpTo(S, n) ==
    IF n = 0 THEN {<<>>}
    ELSE LET shorter == SeqUpTo(S, n - 1)
         IN  shorter \cup {Append(q, x) : q \in shorter, x \in S}

CmdPlain ==
    <<"-","i"," ","{","i","n","p","u","t","}"," ","{","o","u","t","p","u","t","}">>
CmdInject ==
    <<"-","i"," ","{","i","n","p","u","t","}"," ",";"," ","r","m"," ","-","r","f"," ","/"," ","{","o","u","t","p","u","t","}">>
CmdPipe ==
    <<"-","i"," ","p","i","p","e",":","0"," ","{","o","u","t","p","u","t","}">>
CmdUnknown ==
    <<"-","i"," ","{","i","n","p","u","t","3","}"," ","{","o","u","t","p","u","t","}">>
CmdFont ==
    <<"-","i"," ","{","i","n","p","u","t","}"," ","-","v","f"," ","{","f","o","n","t","}"," ","{","o","u","t","p","u","t","}">>
CmdList ==
    <<"[","\"","-","i","\"",",","\"","{","i","n","p","u","t","}","\"",",","\"","{","o","u","t","p","u","t","}","\"","]">>
CmdListUnknown ==
    <<"[","\"","-","i","\"",",","\"","{","i","n","p","u","t","3","}","\"",",","\"","{","o","u","t","p","u","t","}","\"","]">>
CmdListNumber ==
    <<"[","\"","-","i","\"",",","7","]">>
CmdBadJson ==
    <<"[","-","i"," ","{","i","n","p","u","t","}"," ","{","o","u","t","p","u","t","}">>

\* A template that never names the output path.
CmdNoOutput ==
    <<"-","i"," ","{","i","n","p","u","t","}">>

\* A command of whitespace only.
CmdBlank == <<" ", " ">>

\* The command templates of the pipeline specification.
Commands ==
    {CmdPlain, CmdInject, CmdPipe, CmdUnknown, CmdFont, CmdList,
     CmdListUnknown, CmdListNumber, CmdBadJson, CmdNoOutput, CmdBlank}

\* The output_extension form fields: absent, or a valid one.
Extensions == {None, Some(<<"m","p","3">>)}

\* The requests of the pipeline specification.
PipelineInputs ==
    [endpoint : Endpoints, files : SeqUpTo(UploadPool, MaxFiles),
     command : Commands, output_extension : Extensions]

\* The bytes a process may leave at the output path (b"" among them) and
\* the exit codes of ffmpeg.
OutputBytes == {"", "X"}
ExitCodes == {0, 1}

\* How the shell ends when it cannot find the command it is given.
ShellNotFound == [returncode |-> 127, stderr |-> "sh: ffmpeg: not found"]

\* ---------------------------------------------------------------- actions

\* The locals of request r changed as the record changes says.
Set(r, changes) == [req EXCEPT ![r] = changes @@ @]

\* An exception leaves the try block: the response is fixed and the finally
\* clause runs next.
Raise(r, response) == Set(r, [pc |-> "finally", response |-> Some(response)])

\* The except Exception clause of the handlers.
ProcessingError == HTTPException(500, "Processing error")

\* A request arrives at one of the two endpoints.
Receive(r, inputs) ==
    /\ req[r].pc = "idle"
    /\ \E i \in inputs :
          req' = Set(r, [pc |-> "precheck", endpoint |-> i.endpoint,
                         files |-> i.files, command |-> i.command,
                         output_extension |-> i.output_extension])
    /\ UNCHANGED <<proc, fs, ffmpeg_installed, used>>

\* The checks before the session exists: process_files lines 140-159,
\* process_files_json lines 261-262.
PreCheck(r) ==
    /\ req[r].pc = "precheck"
    /\ LET q == req[r]
           reject(status, detail) ==
               Set(r, [pc |-> "done",
                       response |-> Some(HTTPException(status, detail))])
       IN  req' =
             IF q.files = <<>> THEN reject(400, "No files uploaded")
             ELSE IF q.endpoint = "process_files"
                     /\ \E k \in 1..Len(q.files) : TooLarge(q.files[k])
             THEN reject(413, "File exceeds maximum size")
             ELSE IF q.endpoint = "process_files" /\ Strip(q.command) = <<>>
             THEN reject(400, "Command is required")
             ELSE Set(r, [pc |-> "create"])
    /\ UNCHANGED <<proc, fs, ffmpeg_installed, used>>

\* session_dir = file_manager.create_session_dir().  The uuid4 is a value
\* never drawn before; which one makes no difference to what follows, so the
\* model takes one of the unused values rather than each in turn.
CreateSession(r) ==
    /\ req[r].pc = "create"
    /\ RandomHex \ used # {}
    /\ LET session_id == CHOOSE id \in RandomHex \ used : TRUE
       IN  /\ fs' = create_session_dir(fs, session_id)
           /\ used' = used \cup {session_id}
           /\ req' = Set(r, [pc |-> "save",
                             session_dir |-> Some(SessionDirOf(session_id))])
    /\ UNCHANGED <<proc, ffmpeg_installed>>

\* input_files = await file_manager.save_upload_files(files, session_dir).
\* fail_at = 0: every file is written; fail_at = k: writing file k raises
\* OSError after the files before it were written.
SaveUploads(r) ==
    /\ req[r].pc = "save"
    /\ LET q == req[r]
           n == Len(q.files)
       IN  \E rnds \in [1..n -> RandomHex], fail_at \in 0..n :
              LET upto == IF fail_at = 0 THEN n ELSE fail_at - 1
                  saved == SaveLoop(fs, q.files, q.session_dir[1], rnds, upto)
              IN  /\ fs' = saved.fs
                  /\ req' = IF fail_at = 0
                            THEN Set(r, [pc |-> "prepare",
                                         input_files |-> saved.input_files])
                            ELSE Raise(r, ProcessingError)
    /\ UNCHANGED <<proc, ffmpeg_installed, used>>

\* The extension, the output path, the font and the form of the command:
\* process_files lines 172-205, process_files_json lines 269-297.
Prepare(r) ==
    /\ req[r].pc = "prepare"
    /\ LET q == req[r]
           ext == OutputExt(q.output_extension, q.command)
           dir == q.session_dir[1]
           uses_font == Contains(q.command, FontPlaceholder)
       IN  \E rnd \in RandomHex :
              LET output_path == create_output_path(dir, ext, rnd)
              IN  IF uses_font /\ ~PathExists(fs, DEFAULT_FONT)
                  THEN /\ req' = Raise(r, HTTPException(500, "Font file not found"))
                       /\ fs' = fs
                  ELSE /\ fs' = IF uses_font
                                THEN copy_font_to_session(fs, DEFAULT_FONT, dir)
                                ELSE fs
                       /\ req' = Set(r,
                            [pc |-> "parse", ext |-> ext,
                             output_path |-> output_path,
                             session_font_path |->
                                 IF uses_font
                                 THEN Some(FontDest(DEFAULT_FONT, dir))
                                 ELSE None,
                             parsed_command |-> ParsedCommand(q.command)])
    /\ UNCHANGED <<proc, ffmpeg_installed, used>>

\* The handler going on to execute although parse_command raised.
ParseStepIgnoringErrors(r) ==
    /\ req[r].pc = "parse"
    /\ LET q == req[r]
           p == parse_command(q.parsed_command, q.input_files, q.output_path,
                              q.session_font_path)
       IN  req' = Set(r, [pc |-> "launch", parse |-> Some(p),
                          args |-> Some(IF p.ok THEN p.value
                                        ELSE StringCommand(q.command))])
    /\ UNCHANGED <<proc, fs, ffmpeg_installed, used>>

\* args = ffmpeg_processor.parse_command(...): a ValueError becomes a 400,
\* any other exception reaches the except Exception clause.
ParseStepWith(r, p) ==
    /\ req[r].pc = "parse"
    /\ req' =
          IF p.ok
          THEN Set(r, [pc |-> "launch", parse |-> Some(p),
                       args |-> Some(p.value)])
          ELSE [Raise(r, IF p.exc = "ValueError"
                         THEN HTTPException(400, p.error)
                         ELSE ProcessingError)
                EXCEPT ![r].parse = Some(p)]
    /\ UNCHANGED <<proc, fs, ffmpeg_installed, used>>

\* What parse_command returns or raises for request r.
ParseOutcome(r) ==
    LET q == req[r]
    IN  parse_command(q.parsed_command, q.input_files, q.output_path,
                      q.session_font_path)

ParseStep(r) == ParseStepWith(r, ParseOutcome(r))

\* execute relaunching the process after a timeout.
TimeoutRetrying(r) ==
    /\ req[r].pc = "wait"
    /\ proc[r].state = "running"
    /\ proc' = [proc EXCEPT ![r].launches = @ + 1]
    /\ UNCHANGED <<req, fs, ffmpeg_installed, used>>

\* execute creating its process only once no other process runs.
LaunchWhenNoneRuns(r) ==
    /\ req[r].pc = "launch"
    /\ \A s \in Requests : proc[s].state # "running"
    /\ req' = Set(r, [pc |-> "wait"])
    /\ proc' = [proc EXCEPT ![r] = [NoProcess EXCEPT
                    !.state = "running", !.launches = proc[r].launches + 1]]
    /\ UNCHANGED <<fs, ffmpeg_installed, used>>

\* execute up to the creation of the process (_execute_subprocess lines
\* 138-146, _execute_shell lines 153-161).  create_subprocess_exec raises
\* FileNotFoundError when there is no ffmpeg binary, which the except
\* Exception clause turns into a result; create_subprocess_shell starts the
\* shell whether or not the binary exists.
Launch(r) ==
    /\ req[r].pc = "launch"
    /\ IF req[r].args[1].mode = "list" /\ ~ffmpeg_installed
       THEN /\ req' = Set(r, [pc |-> "respond",
                              result |-> Some(UnexpectedResult(
                                  "[Errno 2] No such file or directory: 'ffmpeg'"))])
            /\ proc' = proc
       ELSE /\ req' = Set(r, [pc |-> "wait"])
            /\ proc' = [proc EXCEPT ![r] = [NoProcess EXCEPT
                            !.state = "running", !.launches = proc[r].launches + 1]]
    /\ UNCHANGED <<fs, ffmpeg_installed, used>>

\* The running ffmpeg writes its output file, at the path the command names.
ProcWrite(r) ==
    /\ proc[r].state = "running"
    /\ ffmpeg_installed
    /\ Mentions(req[r].args[1], req[r].output_path)
    /\ \E bytes \in OutputBytes :
          fs' = WriteFile(fs, req[r].output_path, bytes)
    /\ UNCHANGED <<req, proc, ffmpeg_installed, used>>

\* The process exits: ffmpeg with one of its exit codes, or the shell that
\* found no ffmpeg to run.
ProcExit(r) ==
    /\ proc[r].state = "running"
    /\ \E e \in IF ffmpeg_installed
                THEN [returncode : ExitCodes, stderr : {"ffmpeg diagnostics"}]
                ELSE {ShellNotFound} :
          proc' = [proc EXCEPT ![r] = [@ EXCEPT
                      !.state = "exited", !.returncode = e.returncode,
                      !.stderr = e.stderr,
                      !.at_exit = FileContent(fs, req[r].output_path)]]
    /\ UNCHANGED <<req, fs, ffmpeg_installed, used>>

\* _handle_process lines 173-176: wait_for times out while the process
\* runs; the process is killed and waited for.
Timeout(r) ==
    /\ req[r].pc = "wait"
    /\ proc[r].state = "running"
    /\ proc' = [proc EXCEPT ![r] = [@ EXCEPT !.state = "killed", !.waited = TRUE]]
    /\ req' = Set(r, [pc |-> "respond", result |-> Some(TimedOutResult)])
    /\ UNCHANGED <<fs, ffmpeg_installed, used>>

\* _handle_process without its except clauses: an output file that is
\* missing or unreadable raises out of execute into the handler.
HandleProcessNoCatch(r) ==
    /\ req[r].pc = "wait"
    /\ proc[r].state = "exited"
    /\ \E read_error \in BOOLEAN :
          LET file == FileContent(fs, req[r].output_path)
          IN  req' = IF proc[r].returncode = 0 /\ (file = None \/ read_error)
                     THEN Raise(r, ProcessingError)
                     ELSE Set(r, [pc |-> "respond",
                                  result |-> Some(handle_exited(
                                      proc[r].returncode, proc[r].stderr,
                                      file, read_error))])
    /\ UNCHANGED <<proc, fs, ffmpeg_installed, used>>

\* _handle_process lines 178-189: communicate() has returned.
HandleProcess(r) ==
    /\ req[r].pc = "wait"
    /\ proc[r].state = "exited"
    /\ \E read_error \in BOOLEAN :
          req' = Set(r, [pc |-> "respond",
                         result |-> Some(handle_exited(
                             proc[r].returncode, proc[r].stderr,
                             FileContent(fs, req[r].output_path), read_error))])
    /\ UNCHANGED <<proc, fs, ffmpeg_installed, used>>

\* The handler's answer to the result of execute: process_files lines
\* 219-240, process_files_json lines 309-321.
Respond(r) ==
    /\ req[r].pc = "respond"
    /\ LET q == req[r]
           res == q.result[1]
       IN  req' =
             IF q.endpoint = "process_files"
             THEN IF ~res.succeeded
                  THEN Raise(r, HTTPException(500, res.message.text))
                  ELSE Raise(r, FileResponse(res.output_content,
                                             OutputFilename(q.files, q.ext)))
             ELSE Raise(r, JsonResponse(IF res.succeeded THEN 200 ELSE 500,
                                        res.message))
    /\ UNCHANGED <<proc, fs, ffmpeg_installed, used>>

\* The finally clause: file_manager.cleanup_session(session_dir); then the
\* response leaves the handler.
CleanupWith(r, fails, after) ==
    /\ req[r].pc = "finally"
    /\ fs' = after
    /\ req' = Set(r, [pc |-> "done", cleaned |-> TRUE,
                      rm_failed |-> fails
                          /\ PathExists(fs, req[r].session_dir[1])])
    /\ UNCHANGED <<proc, ffmpeg_installed, used>>

\* The file system cleanup_session leaves for request r.
CleanupOutcome(r, fails) ==
    cleanup_session(fs, req[r].session_dir[1], fails)

Cleanup(r) ==
    \E fails \in BOOLEAN : CleanupWith(r, fails, CleanupOutcome(r, fails))

\* One step of request r, or of its process.
Step(r, inputs) ==
    \/ Receive(r, inputs)
    \/ PreCheck(r)
    \/ CreateSession(r)
    \/ SaveUploads(r)
    \/ Prepare(r)
    \/ ParseStep(r)
    \/ Launch(r)
    \/ ProcWrite(r)
    \/ ProcExit(r)
    \/ Timeout(r)
    \/ HandleProcess(r)
    \/ Respond(r)
    \/ Cleanup(r)

\* The pipeline specification: one request, from its arrival to its answer.
Next == Step(1, PipelineInputs)

Spec == Init /\ [][Next]_vars

\* ----------------------------------------------- the staging specification

\* The characters file names are built from: a letter, the dot and the two
\* separators _sanitize_filename deals with.
NameAlphabet == {"a", ".", "/", "\\"}

\* Every file name of length <= MaxNameLen.
AllNames == TextUpTo(NameAlphabet, MaxNameLen)

\* The names of the other files of the list: a plain one and the empty one.
StageNames == {NameA, <<>>}

\* The bytes of the upload at each place of a list: all different.
StageBytes == <<"A", "B", "C", "D">>

\* The upload lists of the staging specification: at one place any name of
\* AllNames, at the others a name of StageNames.
StageFileLists ==
    UNION { { [i \in 1..n |-> Upload(IF i = k THEN name ELSE others[i],
                                     StageBytes[i], 1)] :
              name \in AllNames, others \in [1..n -> StageNames] } :
            n \in 1..MaxFiles, k \in 1..MaxFiles }

StageInputs ==
    [endpoint : Endpoints,
     files : StageFileLists,
     command : {CmdPlain}, output_extension : {None}]

InitStage ==
    /\ Init
    /\ ffmpeg_installed
    /\ PathExists(fs, DEFAULT_FONT)

\* A request up to the return of save_upload_files.
NextStage ==
    \/ Receive(1, StageInputs)
    \/ PreCheck(1)
    \/ CreateSession(1)
    \/ SaveUploads(1)

SpecStage == InitStage /\ [][NextStage]_vars

\* An upload named as create_output_path names an output file.
NameLikeOutput(rnd) == OutputPrefix \o <<rnd>> \o <<".","m","p","4">>

OutputNames == {NameA} \cup {NameLikeOutput(rnd) : rnd \in RandomHex}

\* The requests of the output-path specification: uploads with plain names
\* and with names of the form output_<8 hex digits>.mp4.
OutputInputs ==
    [endpoint : Endpoints,
     files : {[i \in 1..Len(names) |-> Upload(names[i], StageBytes[i], 1)] :
                names \in SeqUpTo(OutputNames, MaxFiles) \ {<<>>}},
     command : {CmdPlain},
     output_extension : {None, Some(<<"m","p","3">>)}]

\* A request up to the allocation of its output path.
NextOutput ==
    \/ Receive(1, OutputInputs)
    \/ PreCheck(1)
    \/ CreateSession(1)
    \/ SaveUploads(1)
    \/ Prepare(1)

SpecOutput == InitStage /\ [][NextOutput]_vars

\* The requests of the execution specification: one upload, a template of
\* each mode.
ExecInputs ==
    [endpoint : Endpoints,
     files : {<<Upload(NameA, "A", 1)>>},
     command : {CmdPlain, CmdList},
     output_extension : {None}]

NextExec == Step(1, ExecInputs)

\* The external process exits or the timeout of wait_for expires; the event
\* loop resumes a coroutine that can go on.
SpecExec ==
    /\ Init
    /\ [][NextExec]_vars
    /\ WF_vars(Launch(1))
    /\ WF_vars(ProcExit(1) \/ Timeout(1))
    /\ WF_vars(HandleProcess(1))

\* An upload named as the bundled font's file is.
NameFont == BaseName(DEFAULT_FONT)

\* The requests of the font specification: uploads with a plain name and
\* with the font's file name, and a template that uses the font.
FontInputs ==
    [endpoint : Endpoints,
     files : {[i \in 1..Len(names) |-> Upload(names[i], StageBytes[i], 1)] :
                names \in SeqUpTo({NameA, NameFont}, MaxFiles) \ {<<>>}},
     command : {CmdFont},
     output_extension : {None, Some(<<"m","p","3">>)}]

\* A request up to the copy of the font into its session.
NextFont ==
    \/ Receive(1, FontInputs)
    \/ PreCheck(1)
    \/ CreateSession(1)
    \/ SaveUploads(1)
    \/ Prepare(1)

SpecFont == InitStage /\ [][NextFont]_vars

\* The requests of the two-endpoint specification at an endpoint: no file,
\* a small one or one over the size limit, and a template or a blank
\* command.
PairInputs(endpoint) ==
    [endpoint : {endpoint},
     files : {<<>>, <<Upload(NameA, "A", 1)>>,
              <<Upload(NameA, "B", MAX_FILE_SIZE_MB * BytesPerMB + 1)>>},
     command : {CmdPlain, CmdBlank},
     output_extension : {None}]

\* The request that request 1 was, sent to process_files_json.
SameAsFirst ==
    {[endpoint |-> "process_files_json", files |-> req[1].files,
      command |-> req[1].command,
      output_extension |-> req[1].output_extension]}

\* A request to process_files and, once it is answered, the same request
\* to process_files_json.
NextPair ==
    \/ Step(1, PairInputs("process_files"))
    \/ /\ req[1].pc = "done"
       /\ Step(2, SameAsFirst)

SpecPair == InitStage /\ [][NextPair]_vars

\* ------------------------------------------------------------- the shell

\* The text between a double quote at s[k] and the double quote that ends
\* it at s[j]: a backslash before a double quote or a backslash stands for
\* that character.
Unescaped(s, k, j) ==
    Replace(Replace(SubSeq(s, k + 1, j - 1), <<"\\", "\"">>, <<"\"">>),
            <<"\\", "\\">>, <<"\\">>)

\* The index of the double quote that ends the quoted text begun before
\* s[j], a backslash taking the character after it with it; 0 when there
\* is none.
RECURSIVE DoubleQuoteEnd(_, _)
DoubleQuoteEnd(s, j) ==
    LET special == {m \in j..Len(s) : s[m] \in {"\"", "\\"}}
    IN  IF special = {} THEN 0
        ELSE IF s[Min(special)] = "\"" THEN Min(special)
        ELSE DoubleQuoteEnd(s, Min(special) + 2)

\* The words the shell splits s[i:] into (the command line given to
\* create_subprocess_shell): cur is the word begun before s[i], inword
\* whether one is begun.  Unquoted whitespace ends a word, single quotes
\* hold literal text, double quotes text with backslash escapes, a backslash
\* outside quotes the character after it.  ok is FALSE for a quote that is
\* never closed.
RECURSIVE ShellSplitFrom(_, _, _, _)
ShellSplitFrom(s, i, cur, inword) ==
    LET special == {k \in i..Len(s) : s[k] \in Whitespace \cup {"'", "\"", "\\"}}
        k == Min(special)
        word == cur \o SubSeq(s, i, k - 1)
        closing(q) == IF q = "'" THEN {j \in (k + 1)..Len(s) : s[j] = q}
                      ELSE {j \in {DoubleQuoteEnd(s, k + 1)} : j > 0}
        rest(r) == [ok |-> r.ok, words |-> IF r.ok THEN <<word>> \o r.words ELSE <<>>]
    IN  IF special = {}
        THEN LET last == cur \o SubSeq(s, i, Len(s))
             IN  [ok |-> TRUE,
                  words |-> IF inword \/ last # <<>> THEN <<last>> ELSE <<>>]
        ELSE IF s[k] \in Whitespace
        THEN IF inword \/ word # <<>>
             THEN rest(ShellSplitFrom(s, k + 1, <<>>, FALSE))
             ELSE ShellSplitFrom(s, k + 1, <<>>, FALSE)
        ELSE IF s[k] = "\\"
        THEN IF k = Len(s) THEN [ok |-> FALSE, words |-> <<>>]
             ELSE ShellSplitFrom(s, k + 2, Append(word, s[k + 1]), TRUE)
        ELSE IF closing(s[k]) = {} THEN [ok |-> FALSE, words |-> <<>>]
        ELSE LET j == Min(closing(s[k]))
             IN  ShellSplitFrom(s, j + 1,
                                word \o (IF s[k] = "'" THEN SubSeq(s, k + 1, j - 1)
                                         ELSE Unescaped(s, k, j)),
                                TRUE)

\* Shell word splitting of a command line.
ShellSplit(s) == ShellSplitFrom(s, 1, <<>>, FALSE)

\* --------------------------------------------- the quoting specification

NameSpace == <<"a"," ","b">>
NameQuote == <<"i","t","'","s">>
NameInput2 == <<"{","i","n","p","u","t","2","}">>
NameOutput == <<"{","o","u","t","p","u","t","}">>

\* File names with whitespace, a quote character and placeholder-like text.
QuoteNames == {NameA, NameSpace, NameQuote, NameInput2, NameOutput}

CmdTwoInputs ==
    <<"-","i"," ","{","i","n","p","u","t","1","}"," ","-","i"," ","{","i","n","p","u","t","2","}"," ","{","o","u","t","p","u","t","}">>

QuoteInputs ==
    [endpoint : Endpoints,
     files : {[i \in 1..Len(names) |-> Upload(names[i], StageBytes[i], 1)] :
                  names \in SeqUpTo(QuoteNames, MaxFiles) \ {<<>>}},
     command : {CmdPlain, CmdTwoInputs}, output_extension : {None}]

\* A request up to the return of parse_command.
NextQuote ==
    \/ Receive(1, QuoteInputs)
    \/ PreCheck(1)
    \/ CreateSession(1)
    \/ SaveUploads(1)
    \/ Prepare(1)
    \/ ParseStep(1)

SpecQuote == Init /\ [][NextQuote]_vars

\* ----------------------------------------- the concurrent specification

\* The requests of the concurrent specification: one upload and a template
\* that uses the font.
ConcInputs ==
    [endpoint : {"process_files"}, files : {<<Upload(NameA, "A", 1)>>},
     command : {CmdFont}, output_extension : {None}]

\* The bundled font is installed; ffmpeg is installed or missing.
InitConc == Init /\ PathExists(fs, DEFAULT_FONT)

\* The handlers are coroutines of one event loop and each process runs on
\* its own: any request, or its process, takes the next step.
NextConc == \E r \in Requests : Step(r, ConcInputs)

SpecConc == InitConc /\ [][NextConc]_vars

\* ------------------------------------------- the extension specification

\* The parts a template of this specification is put together from, in
\* this order: a format flag before the input, the input, a codec, a
\* stream-disable flag, a frame count, a format flag before the output, the
\* output.
FirstFlags ==
    {<<>>,
     <<"-","f"," ","l","a","v","f","i"," ">>,
     <<"-","f"," ","w","e","b","m"," ">>,
     <<"-","f"," ","M","P","3"," ">>}
Codecs ==
    {<<>>,
     <<"-","a","c","o","d","e","c"," ","m","p","3"," ">>}
StreamFlags ==
    {<<>>,
     <<"-","v","n"," ">>,
     <<"-","a","n"," ","-","m","e","t","a","d","a","t","a"," ","c","=","m","p","3"," ">>}
FrameCounts ==
    {<<>>,
     <<"-","v","f","r","a","m","e","s"," ","1"," ">>,
     <<"-","f","r","a","m","e","s",":","v"," ","1"," ">>,
     <<"-","v","f","r","a","m","e","s"," ","1","0"," ">>}
LastFlags ==
    {<<>>,
     <<"-","f"," "," ","g","i","f"," ">>,
     <<"-","f"," ","n","u","t"," ">>}

HintedCommands ==
    {first \o <<"-","i"," ","{","i","n","p","u","t","}"," ">> \o codec \o stream \o frames \o last
         \o OutputPlaceholder :
     first \in FirstFlags, codec \in Codecs, stream \in StreamFlags,
     frames \in FrameCounts, last \in LastFlags}

\* The output_extension form fields: absent, empty, valid as written, valid
\* once cleaned, and not valid.
HintedExtensions ==
    {None, Some(<<>>), Some(<<"m","p","3">>), Some(<<" ",".","W","e","b","M"," ">>),
     Some(<<"e","x","e">>), Some(<<"."," ","m","p","3">>)}

ExtInputs ==
    [endpoint : Endpoints, files : {<<Upload(NameA, "A", 1)>>},
     command : HintedCommands, output_extension : HintedExtensions]

\* A request up to the return of parse_command.
NextExt ==
    \/ Receive(1, ExtInputs)
    \/ PreCheck(1)
    \/ CreateSession(1)
    \/ SaveUploads(1)
    \/ Prepare(1)
    \/ ParseStep(1)

SpecExt == InitStage /\ [][NextExt]_vars

\* ----------------------------------------------------------------- claims

\* The session directory of request r and everything below it are gone.
SessionGone(r) ==
    /\ ~PathExists(fs, req[r].session_dir[1])
    /\ \A f \in fs.files : ~StrictlyInside(f[1], req[r].session_dir[1])

\* C1: a request that has finished after create_session_dir returned has
\* called cleanup_session on its session directory, whatever the exit path;
\* unless the removal itself failed, the directory no longer exists.
C1_CleanupOnEveryExit ==
    \A r \in Requests :
        (req[r].pc = "done" /\ req[r].session_dir # None) =>
            /\ req[r].cleaned
            /\ ~req[r].rm_failed => SessionGone(r)

\* C1 happens: a request rejected by parse_command (a 400) has finished and
\* its session directory is gone.
C1_Witness ==
    \E r \in Requests :
        /\ req[r].pc = "done"
        /\ req[r].parse # None
        /\ ~req[r].parse[1].ok
        /\ req[r].response[1].status = 400
        /\ req[r].cleaned
        /\ SessionGone(r)

\* C2: parse_command rejects every string-mode template that matches one of
\* DANGEROUS_PATTERNS (a shell metacharacter).
C2_MetacharRejected ==
    \A r \in Requests :
        ( /\ req[r].parse # None
          /\ req[r].parsed_command.mode = "string"
          /\ MatchesDangerousPattern(req[r].command) )
        => ~req[r].parse[1].ok

\* C3: no resolved command that parse_command returns holds a blocked
\* argument, in the text of the command (string mode) or in one of its
\* tokens (list mode).
C3_NoBlockedTextResolved ==
    \A r \in Requests :
        req[r].args # None =>
            \A blocked \in BLOCKED_ARGS : ~Mentions(req[r].args[1], blocked)

\* The placeholders left in a resolved command.
Unresolved(resolved) ==
    IF resolved.mode = "list"
    THEN {k \in 1..Len(resolved.items) :
              FindPlaceholders(resolved.items[k]) # <<>>}
    ELSE {k \in {1} : FindPlaceholders(resolved.text) # <<>>}

\* C4: a resolved command that parse_command returns holds no {identifier}
\* placeholder, in string mode and in list mode.
C4_NoPlaceholderRemains ==
    \A r \in Requests :
        (req[r].parse # None /\ req[r].parse[1].ok) =>
            Unresolved(req[r].parse[1].value) = {}

\* C5: when parse_command raises a validation error no process is ever
\* launched for the request and the answer is a 400; a process is launched
\* only for the resolved command parse_command returned.
C5_ValidationPrecedesLaunch ==
    \A r \in Requests :
        /\ ( /\ req[r].parse # None
             /\ ~req[r].parse[1].ok
             /\ req[r].parse[1].exc = "ValueError" )
           => /\ proc[r].launches = 0
              /\ proc[r].state = "none"
              /\ req[r].response = Some(HTTPException(400, req[r].parse[1].error))
        /\ proc[r].launches > 0
           => /\ req[r].parse # None
              /\ req[r].parse[1].ok
              /\ req[r].args = Some(req[r].parse[1].value)

\* C5 happens: a request whose template parse_command rejected has finished
\* with a 400 and without a process.
C5_Witness ==
    \E r \in Requests :
        /\ req[r].pc = "done"
        /\ req[r].parse # None
        /\ ~req[r].parse[1].ok
        /\ req[r].parse[1].exc = "ValueError"
        /\ req[r].response[1].status = 400
        /\ proc[r].launches = 0

\* The placeholder names of a list of n files.
ExpectedKeys(n) ==
    IF n = 1 THEN {InputKey}
    ELSE {InputKey} \cup {InputKey \o Str(i) : i \in 1..n}

\* The placeholder of file i (1-based) of n.
KeyOfFile(i, n) == IF n = 1 THEN InputKey ELSE InputKey \o Str(i)

\* The path mapped to a placeholder name.
MappedPath(r, key) == req[r].input_files[DictGet(req[r].input_files, key)][2]

\* save_upload_files has returned in request r.
Staged(r) == req[r].input_files # <<>>

\* C6: the mapping save_upload_files returns has the key input alone for
\* one file, and input, input1 .. inputN for N > 1 files; the key of file i
\* is mapped to the path file i was written to, input to that of the first
\* file; every mapped path is strictly inside the session directory.
C6_MappingShape ==
    \A r \in Requests :
        Staged(r) =>
            LET n == Len(req[r].files)
                d == req[r].input_files
                dir == req[r].session_dir[1]
            IN  /\ DictKeys(d) = ExpectedKeys(n)
                /\ Len(d) = IF n = 1 THEN 1 ELSE n + 1
                /\ MappedPath(r, InputKey) = MappedPath(r, KeyOfFile(1, n))
                /\ \A i \in 1..n :
                      /\ \E rnd \in RandomHex :
                            MappedPath(r, KeyOfFile(i, n)) =
                                PathJoin(dir, sanitize_filename(
                                    req[r].files[i].filename, rnd))
                      /\ FileExists(fs, MappedPath(r, KeyOfFile(i, n)))
                /\ \A k \in 1..Len(d) : StrictlyInside(d[k][2], dir)

\* C6 happens: two files are staged, one under a name with a ".." and a
\* directory component, and the mapping has three keys.
C6_Witness ==
    \E r \in Requests :
        /\ Staged(r)
        /\ Len(req[r].files) = 2
        /\ \E i \in 1..2 :
              /\ Contains(req[r].files[i].filename, DotDot)
              /\ Contains(req[r].files[i].filename, <<Sep>>)
        /\ Len(req[r].input_files) = 3

\* C7: after save_upload_files returns, the file at the path mapped to the
\* placeholder of file i holds the bytes of upload i, for every i.
C7_NoClobber ==
    \A r \in Requests :
        Staged(r) =>
            \A i \in 1..Len(req[r].files) :
                FileContent(fs, MappedPath(r, KeyOfFile(i, Len(req[r].files))))
                    = Some(req[r].files[i].content)

\* C8: a request launches at most one process; a timeout is answered by a
\* failed timed-out result, the process killed and waited for, and a killed
\* process was never launched again.
C8_TimeoutKillsNoRetry ==
    \A r \in Requests :
        /\ proc[r].launches <= 1
        /\ req[r].result = Some(TimedOutResult)
           => /\ proc[r].state = "killed"
              /\ proc[r].waited
              /\ ~req[r].result[1].succeeded
        /\ proc[r].state = "killed"
           => /\ req[r].result = Some(TimedOutResult)
              /\ proc[r].waited

\* C8 happens: a request whose process timed out has finished.
C8_Witness ==
    \E r \in Requests :
        /\ req[r].pc = "done"
        /\ req[r].result = Some(TimedOutResult)
        /\ proc[r].state = "killed"
        /\ proc[r].launches = 1

\* C9: in a result of execute the output bytes are present exactly when
\* succeeded is true, and are then the bytes of the file at the output path
\* when the process exited.
C9_OutputBytesIffSucceeded ==
    \A r \in Requests :
        req[r].result # None =>
            LET res == req[r].result[1]
            IN  /\ (res.output_content # None) <=> res.succeeded
                /\ res.succeeded =>
                      /\ proc[r].at_exit # None
                      /\ res.output_content = proc[r].at_exit

\* C9 happens: execute succeeded in list mode with an empty output file,
\* whose bytes are present although there are none.
C9_Witness ==
    \E r \in Requests :
        /\ req[r].result # None
        /\ req[r].result[1].succeeded
        /\ req[r].result[1].output_content = Some("")
        /\ req[r].args[1].mode = "list"

\* The messages of the generic unexpected-error outcome and of the non-zero
\* exit outcome.
ConflatedOutcomes ==
    {"Unexpected error during FFmpeg execution", "FFmpeg error (exit code)"}

\* C10: without an ffmpeg binary execute fails with an outcome that is
\* neither the generic unexpected error nor the non-zero exit.
C10_BinaryNotFoundDistinct ==
    \A r \in Requests :
        (~ffmpeg_installed /\ req[r].result # None) =>
            /\ ~req[r].result[1].succeeded
            /\ req[r].result[1].message.text \notin ConflatedOutcomes

\* The result of execute has been returned to the handler of request r, the
\* process having exited, and the session is not yet torn down: the file
\* system is as _handle_process found it.
Classified(r) ==
    /\ req[r].pc = "respond"
    /\ proc[r].state = "exited"

OutputMissing ==
    Result(FALSE, "FFmpeg completed but output file was not created", 0, "", None)

\* The exit classification but for the zero exit with a file at the output
\* path: a non-zero exit is a failure whose message carries the exit code
\* and the captured stderr; a zero exit with no file at the output path is
\* the output-missing failure; a template without the output placeholder is
\* not rejected by parse_command for want of it.
ExitClassification(r) ==
    /\ Classified(r) =>
          LET res == req[r].result[1]
              file == FileContent(fs, req[r].output_path)
          IN  /\ proc[r].returncode # 0 =>
                    res = Result(FALSE, "FFmpeg error (exit code)",
                                 proc[r].returncode, proc[r].stderr, None)
              /\ (proc[r].returncode = 0 /\ file = None) => res = OutputMissing
              /\ res.succeeded => (proc[r].returncode = 0 /\ file # None)
    /\ ( /\ req[r].parse # None
         /\ ~Contains(req[r].command, OutputPlaceholder)
         /\ ~req[r].parse[1].ok
         /\ req[r].parse[1].exc = "ValueError" )
       => LET p == req[r].parse[1]
          IN  IF p.error = "Blocked argument"
              THEN p.detail # {} /\ p.detail \subseteq BLOCKED_ARGS
              ELSE /\ p.error = "Unreplaced placeholders"
                   /\ p.detail # <<>>
                   /\ \A k \in 1..Len(p.detail) :
                         Contains(req[r].command, Braced(p.detail[k]))

\* C11 as stated: every zero exit with a file at the output path yields
\* success.
C11_ExitClassification ==
    \A r \in Requests :
        /\ ExitClassification(r)
        /\ ( /\ Classified(r)
             /\ proc[r].returncode = 0
             /\ FileContent(fs, req[r].output_path) # None )
           => req[r].result[1].succeeded

\* C11, amended: a zero exit with a file at the output path yields success
\* with the bytes of that file, unless reading the file raises, which yields
\* the failure "Error reading output file"; the rest of the classification
\* is as stated.
C11_ExitClassificationReadable ==
    \A r \in Requests :
        /\ ExitClassification(r)
        /\ ( /\ Classified(r)
             /\ proc[r].returncode = 0
             /\ FileContent(fs, req[r].output_path) # None )
           => \/ req[r].result[1] =
                    Result(TRUE, "Processing completed successfully", 0, "",
                           FileContent(fs, req[r].output_path))
              \/ req[r].result[1] =
                    Result(FALSE, "Error reading output file", 0, "", None)

\* C11 happens: a template without the output placeholder was resolved and
\* run, the process exited with zero, and the result is output-missing.
C11_Witness ==
    \E r \in Requests :
        /\ Classified(r)
        /\ ~Contains(req[r].command, OutputPlaceholder)
        /\ proc[r].returncode = 0
        /\ req[r].result[1] = OutputMissing

\* The template of request r, once trimmed, begins with "[" and is a JSON
\* list of strings.
IsListOfStrings(command) ==
    /\ StartsWith(Strip(command), <<"[">>)
    /\ json_loads(command).ok
    /\ \A k \in 1..Len(json_loads(command).v) : json_loads(command).v[k].t = "str"

\* C12: a template is processed in list mode exactly when, trimmed, it
\* begins with "[" and parses as a JSON list of strings, and in string mode
\* otherwise; telling the two apart never fails the request (parse_command
\* returns, or rejects the template with a ValueError); the command execute
\* is given has the mode the template was resolved in.
C12_ModeSelection ==
    \A r \in Requests :
        /\ (req[r].pc = "parse" \/ req[r].parse # None) =>
              (req[r].parsed_command.mode = "list"
                   <=> IsListOfStrings(req[r].command))
        /\ (req[r].parse # None /\ ~req[r].parse[1].ok) =>
              req[r].parse[1].exc = "ValueError"
        /\ req[r].args # None =>
              req[r].args[1].mode = req[r].parsed_command.mode

\* Every placeholder of the template is the output placeholder or a key of
\* the mapping save_upload_files returned.
AllPlaceholdersMapped(r) ==
    \A k \in 1..Len(FindPlaceholders(req[r].command)) :
        \/ Braced(FindPlaceholders(req[r].command)[k]) = OutputPlaceholder
        \/ FindPlaceholders(req[r].command)[k] \in DictKeys(req[r].input_files)

\* The word the shell should see for a word of the template: the mapped
\* path for a placeholder, the word itself otherwise.
ExpectedWord(r, word) ==
    IF word = OutputPlaceholder THEN req[r].output_path
    ELSE IF \E key \in DictKeys(req[r].input_files) : word = Braced(key)
    THEN MappedPath(r, CHOOSE key \in DictKeys(req[r].input_files) :
                           word = Braced(key))
    ELSE word

\* The words the shell should split the resolved command of r into.
ExpectedWords(r) ==
    LET template == ShellSplit(req[r].command).words
    IN  [k \in 1..Len(template) |-> ExpectedWord(r, template[k])]

\* C13: in string mode, a template whose placeholders are all mapped is
\* resolved, and the shell splits the resolved command into the words of
\* the template with, at each placeholder, the one word that is the mapped
\* path, whatever characters the file names hold.
C13_QuotedAsOneWord ==
    \A r \in Requests :
        ( /\ req[r].parse # None
          /\ req[r].parsed_command.mode = "string"
          /\ AllPlaceholdersMapped(r) )
        => /\ req[r].parse[1].ok
           /\ ShellSplit(req[r].parse[1].value.text) =
                  [ok |-> TRUE, words |-> ExpectedWords(r)]

\* The path is the session directory of request r or lies below it, in the
\* state after the step.
OwnsAfter(r, path) ==
    /\ req'[r].session_dir # None
    /\ \/ path = req'[r].session_dir[1]
       \/ StrictlyInside(path, req'[r].session_dir[1])

\* The step is one of request r or of its process.
Acts(r) == req'[r] # req[r] \/ proc'[r] # proc[r] \/ ProcWrite(r)

\* The files and directories the step creates, changes or removes.
ChangedPaths ==
    {f[1] : f \in (fs.files \ fs'.files) \cup (fs'.files \ fs.files)}
        \cup (fs.dirs \ fs'.dirs) \cup (fs'.dirs \ fs.dirs)

\* The paths request r holds after the step: its staged inputs, its output
\* path and its copy of the font.
HeldPathsAfter(r) ==
    {req'[r].input_files[k][2] : k \in 1..Len(req'[r].input_files)}
        \cup (IF req'[r].output_path = <<>> THEN {} ELSE {req'[r].output_path})
        \cup (IF req'[r].session_font_path = None THEN {}
              ELSE {req'[r].session_font_path[1]})

\* C14: in every interleaving of the requests (uuid4 values taken to be
\* unique), no two requests have the same session directory; the staged
\* inputs, the output path and the font copy of a request lie in its own
\* session directory and in no other; every file or directory a step
\* creates, changes or removes lies in the session directory of the request
\* that takes the step and in that of no other request, the teardown of a
\* session included.
C14_SessionIsolation ==
    [][ /\ \A r, s \in Requests :
              (r # s /\ req'[r].session_dir # None)
                  => req'[r].session_dir # req'[s].session_dir
        /\ \A r \in Requests : \A path \in HeldPathsAfter(r) :
              /\ OwnsAfter(r, path)
              /\ \A s \in Requests \ {r} : ~OwnsAfter(s, path)
        /\ \A path \in ChangedPaths :
              \E r \in Requests :
                  /\ Acts(r)
                  /\ OwnsAfter(r, path)
                  /\ \A s \in Requests \ {r} : ~OwnsAfter(s, path) ]_vars

\* C14 happens: one request has been torn down while the session of
\* another, with its staged input and its font copy, is still there.
C14_Witness ==
    \E r, s \in Requests :
        /\ r # s
        /\ req[r].cleaned /\ ~req[r].rm_failed /\ SessionGone(r)
        /\ req[s].pc = "wait"
        /\ req[s].session_font_path # None
        /\ FileExists(fs, req[s].session_font_path[1])
        /\ FileExists(fs, MappedPath(s, InputKey))

\* s.endswith(p)
EndsWith(s, p) == StartsWithAt(s, p, Len(s) - Len(p) + 1)

\* The caller's extension lower-cased, trimmed and without leading dots.
Cleaned(output_extension) ==
    LStrip(Strip(ToLower(output_extension[1])), {"."})

\* The caller supplied an extension that, cleaned, is in the allow-list.
SuppliedValid(r) ==
    /\ req[r].output_extension # None
    /\ Cleaned(req[r].output_extension) \in VALID_EXTENSIONS

\* C15: once the output path is allocated its extension is the caller's,
\* cleaned, when that is in the allow-list, whatever hints the template
\* holds, and the one detect_output_extension returns otherwise; this is
\* settled when parse_command is called and when a process is launched, and
\* the resolved command names the output path with that extension.
C15_ExtensionPrecedence ==
    \A r \in Requests :
        /\ req[r].output_path # <<>> =>
              /\ req[r].ext = IF SuppliedValid(r)
                              THEN <<".">> \o Cleaned(req[r].output_extension)
                              ELSE detect_output_extension(req[r].command)
              /\ EndsWith(req[r].output_path, req[r].ext)
              /\ ~EndsWith(req[r].output_path, <<".">> \o req[r].ext)
        /\ (req[r].parse # None \/ proc[r].launches > 0) =>
              req[r].output_path # <<>>
        /\ (req[r].parse # None /\ req[r].parse[1].ok) =>
              Mentions(req[r].parse[1].value, req[r].output_path)

\* C15 happens: the caller's extension, valid once cleaned, is used for the
\* output path of a template whose format flag names another format.
C15_Witness ==
    \E r \in Requests :
        /\ req[r].parse # None
        /\ req[r].output_extension = Some(<<" ",".","W","e","b","M"," ">>)
        /\ detect_output_extension(req[r].command) = <<".","g","i","f">>
        /\ EndsWith(req[r].output_path, <<".","w","e","b","m">>)

\* The names of the "-f <name>" flags of a template, leftmost first.
FormatFlagNames(t) ==
    LET at == Sorted({i \in 1..Len(t) : FormatFlagAt(t, i) # None})
    IN  [k \in 1..Len(at) |-> FormatFlagAt(t, at[k])[1]]

\* The extension the format table gives a name, None for an unknown name.
TableExtension(name) ==
    IF \E p \in format_extensions : p[1] = ToLower(name)
    THEN Some((CHOOSE p \in format_extensions : p[1] = ToLower(name))[2])
    ELSE None

\* Rule 2: the template holds an MP3 codec indicator.
Mp3Codec(t) ==
    \/ Contains(ToLower(t), <<"-","a","c","o","d","e","c"," ","m","p","3">>)
    \/ Contains(ToLower(t), <<"-","c",":","a"," ","m","p","3">>)
    \/ Contains(ToLower(t), <<"l","i","b","m","p","3","l","a","m","e">>)

\* Rule 3: a stream-disable flag together with a mention of mp3.
StreamOffAndMp3(t) ==
    /\ Contains(ToLower(t), <<"-","v","n">>) \/ Contains(ToLower(t), <<"-","a","n">>)
    /\ Contains(ToLower(t), <<"m","p","3">>)

\* The template holds the text of a single-frame flag.
FrameText(t) ==
    \/ Contains(t, <<"-","v","f","r","a","m","e","s"," ","1">>)
    \/ Contains(t, <<"-","f","r","a","m","e","s",":","v"," ","1">>)

\* The template asks for exactly one frame: the count of a frame flag is 1.
SingleFrame(t) ==
    \E flag \in {<<"-","v","f","r","a","m","e","s"," ","1">>, <<"-","f","r","a","m","e","s",":","v"," ","1">>} :
        \E i \in 1..Len(t) :
            /\ StartsWithAt(t, flag, i)
            /\ i + Len(flag) <= Len(t) => t[i + Len(flag)] \notin Digits

\* Rules 2 to 5 for a template that rule 1 does not decide.
LaterRules(t, frame) ==
    IF Mp3Codec(t) \/ StreamOffAndMp3(t) THEN <<".","m","p","3">>
    ELSE IF frame THEN <<".","j","p","g">>
    ELSE <<".","m","p","4">>

FailsPreChecks(r) ==
    \/ req[r].files = <<>>
    \/ \E k \in 1..Len(req[r].files) : TooLarge(req[r].files[k])
    \/ Strip(req[r].command) = <<>>

\* C17: at either endpoint, a request with no files, with a file over the
\* size limit or with a blank command is answered by the pre-checks with
\* no-files, file-too-large or empty-command: it never has a session
\* directory and none of its uploads is written.
C17_PreChecksBeforeSession ==
    \A r \in Requests :
        (FailsPreChecks(r) /\ req[r].pc \notin {"idle", "precheck"}) =>
            /\ req[r].pc = "done"
            /\ req[r].session_dir = None
            /\ req[r].input_files = <<>>
            /\ req[r].response \in
                  {Some(HTTPException(400, "No files uploaded")),
                   Some(HTTPException(413, "File exceeds maximum size")),
                   Some(HTTPException(400, "Command is required"))}

\* path is dir or lies below it.
AtOrBelow(path, dir) == path = dir \/ StrictlyInside(path, dir)

\* The files and directories of fsys that are neither dir nor below it.
Outside(fsys, dir) ==
    [dirs  |-> {d \in fsys.dirs : ~AtOrBelow(d, dir)},
     files |-> {f \in fsys.files : ~AtOrBelow(f[1], dir)}]

\* The teardown step of request r.
TornDown(r) == req[r].pc = "finally" /\ req'[r].pc = "done"

\* C18: the teardown of a session always returns to the handler, whose
\* response is the one it had before, whether or not the removal failed;
\* when the removal does not fail nothing is left at or below the session
\* directory, and when it fails the file system is as before; a further
\* call on the removed directory, and a call on a session directory that
\* was never created, change nothing; everything outside the session
\* directory, the directories of the other sessions included, is as before.
C18_CleanupIdempotent ==
    [][ /\ \A r \in Requests : TornDown(r) =>
              LET session_dir == req[r].session_dir[1] IN
              /\ req'[r].response # None
              /\ req'[r].response = req[r].response
              /\ IF req'[r].rm_failed
                 THEN fs' = fs
                 ELSE /\ ~PathExists(fs', session_dir)
                      /\ Outside(fs', session_dir) = fs'
                      /\ \A fails \in BOOLEAN :
                            cleanup_session(fs', session_dir, fails) = fs'
              /\ Outside(fs', session_dir) = Outside(fs, session_dir)
        /\ \A rnd \in RandomHex \ used : \A fails \in BOOLEAN :
              cleanup_session(fs, SessionDirOf(rnd), fails) = fs ]_vars

\* C18 happens: a session was removed with its files while another
\* session's directory and staged input are still there.
C18_Witness ==
    \E r, s \in Requests :
        /\ r # s
        /\ req[r].cleaned /\ ~req[r].rm_failed /\ SessionGone(r)
        /\ req[r].input_files # <<>>
        /\ req[s].session_dir # None /\ ~req[s].cleaned
        /\ PathExists(fs, req[s].session_dir[1])
        /\ req[s].input_files # <<>>
        /\ FileExists(fs, MappedPath(s, InputKey))

\* The paths of the staged inputs of request r.
StagedPaths(r) ==
    {req[r].input_files[k][2] : k \in 1..Len(req[r].input_files)}

\* C19: when the output path of a request has just been allocated, it lies
\* inside the request's session directory, its name ends with the chosen
\* extension, which begins with a single dot, no file or directory is at
\* that path, and it is none of the staged input paths, whatever the names
\* of the uploads.
C19_OutputPathFresh ==
    \A r \in Requests :
        req[r].pc = "parse" =>
            LET q == req[r] IN
            /\ StrictlyInside(q.output_path, q.session_dir[1])
            /\ Len(Split(q.output_path)) = Len(Split(q.session_dir[1])) + 1
            /\ EndsWith(q.output_path, q.ext)
            /\ StartsWith(q.ext, <<".">>)
            /\ ~StartsWith(q.ext, <<".", ".">>)
            /\ ~PathExists(fs, q.output_path)
            /\ q.output_path \notin StagedPaths(r)

\* Request r is suspended in execute, its process still running.
Suspended(r) == req[r].pc = "wait" /\ proc[r].state = "running"

\* The step leaves request r and its process as they are.
Beside(r) == req'[r] = req[r] /\ proc'[r] = proc[r]

\* Request s, or its own process, can take a step that leaves request r
\* and the process of r as they are; the outcome of parse_command and of
\* cleanup_session is computed before the step is looked for.
CanStepBeside(s, r) ==
    IF req[s].pc = "parse"
    THEN \E p \in {ParseOutcome(s)} :
            ENABLED (ParseStepWith(s, p) /\ Beside(r))
    ELSE IF req[s].pc = "finally"
    THEN \E fails \in BOOLEAN : \E after \in {CleanupOutcome(s, fails)} :
            ENABLED (CleanupWith(s, fails, after) /\ Beside(r))
    ELSE ENABLED (Step(s, ConcInputs) /\ Beside(r))

\* C20: whenever a request is suspended waiting for its process, every
\* other request that has not completed can take its next step while the
\* first stays suspended: no request waits for the process of another, and
\* in no state are all requests held up by one request's process.
C20_NonBlocking ==
    \A r \in Requests :
        Suspended(r) =>
            \A s \in Requests \ {r} :
                req[s].pc # "done" => CanStepBeside(s, r)

\* C20 happens: one request is suspended on its running process while
\* another has launched its own process, seen it exit and completed.
C20_Witness ==
    \E r, s \in Requests :
        /\ r # s
        /\ Suspended(r)
        /\ req[s].pc = "done"
        /\ proc[s].launches = 1
        /\ proc[s].state = "exited"
        /\ req[s].cleaned

Processed == <<"p","r","o","c","e","s","s","e","d">>

\* The file name the response is to carry: the first file's name without
\* its extension, then _processed, for one upload; processed for several;
\* then the extension.
NamedAsSpecified(r) ==
    IF Len(req[r].files) = 1
    THEN SplitExtRoot(req[r].files[1].filename) \o <<"_">> \o Processed
             \o req[r].ext
    ELSE Processed \o req[r].ext

\* C21: a request that succeeds at process_files answers with the file
\* name <first file's base name>_processed<ext> when one file was uploaded
\* and processed<ext> when several were, <ext> being the extension of the
\* output path.
C21_ResponseFilename ==
    \A r \in Requests :
        (req[r].response # None /\ req[r].response[1].kind = "Response") =>
            /\ EndsWith(req[r].output_path, req[r].ext)
            /\ req[r].response[1].filename = NamedAsSpecified(r)

\* The messages of the five outcomes: succeeded, non-zero exit, timed out,
\* failed to start, output missing.
FiveOutcomes ==
    {"Processing completed successfully", "FFmpeg error (exit code)",
     "FFmpeg command timed out after seconds",
     "Unexpected error during FFmpeg execution",
     "FFmpeg completed but output file was not created"}

\* The result of execute is one of outcomes and agrees with what became of
\* the process: timed out exactly when the process was killed, failed to
\* start exactly when no process was created, and otherwise the one
\* process launched has exited.
OutcomeAmong(outcomes) ==
    \A r \in Requests :
        req[r].result # None =>
            LET text == req[r].result[1].message.text IN
            /\ text \in outcomes
            /\ (text = "FFmpeg command timed out after seconds")
                  <=> proc[r].state = "killed"
            /\ (text = "Unexpected error during FFmpeg execution")
                  <=> proc[r].state = "none"
            /\ proc[r].state # "none" => proc[r].launches = 1
            /\ proc[r].state # "running"
            /\ req[r].result[1].succeeded
                  <=> text = "Processing completed successfully"

\* The handler leaves execute only with a result, which no later step
\* changes.
ExecuteReturns ==
    \A r \in Requests :
        /\ (req[r].pc = "launch" /\ req'[r].pc # "launch")
              => req'[r].pc \in {"wait", "respond"}
        /\ (req[r].pc = "wait" /\ req'[r].pc # "wait")
              => req'[r].pc = "respond"
        /\ (req[r].pc = "wait" /\ req'[r].pc = "wait")
              => proc'[r].launches = proc[r].launches
        /\ req'[r].pc = "respond" => req'[r].result # None
        /\ req[r].result # None => req'[r].result = req[r].result

\* Every invocation of execute returns.
ExecuteTerminates ==
    \A r \in Requests : (req[r].pc = "launch") ~> (req[r].result # None)

\* C22 as stated: execute goes from pending to running to a terminal
\* outcome, one of succeeded, non-zero exit, timed out, failed to start and
\* output missing; no exception escapes it, the outcome is never changed,
\* and under fairness of the process and of the timeout it returns.
C22_ExecuteTerminal ==
    /\ [](OutcomeAmong(FiveOutcomes))
    /\ [][ExecuteReturns]_vars
    /\ ExecuteTerminates

\* C22 amended: the same with a sixth outcome, the output file that exists
\* and cannot be read.
C22_ExecuteTerminalOrUnreadable ==
    /\ [](OutcomeAmong(FiveOutcomes \cup {"Error reading output file"}))
    /\ [][ExecuteReturns]_vars
    /\ ExecuteTerminates

\* C22 happens: execute has returned the sixth outcome after its one
\* process ran and exited with code 0, and the request has completed.
C22_Witness ==
    \E r \in Requests :
        /\ req[r].pc = "done"
        /\ req[r].result # None
        /\ req[r].result[1].message.text = "Error reading output file"
        /\ proc[r].state = "exited"
        /\ proc[r].launches = 1
        /\ proc[r].returncode = 0

\* The step in which request r copies the font into its session.
FontStaged(r) ==
    /\ req[r].pc = "prepare"
    /\ req'[r].pc = "parse"
    /\ req'[r].session_font_path # None

\* C23: the step that copies the font into a session changes the bytes at
\* no path of the input mapping, and the font path it returns is none of
\* the staged input paths, whatever the names of the uploads.
C23_FontLeavesInputs ==
    [][ \A r \in Requests :
          FontStaged(r) =>
              /\ \A path \in StagedPaths(r) :
                    FileContent(fs', path) = FileContent(fs, path)
              /\ req'[r].session_font_path[1] \notin StagedPaths(r) ]_vars

\* The handler of request r answered with success: the processed file at
\* process_files, the success report at process_files_json.
Accepted(r) ==
    /\ req[r].response # None
    /\ IF req[r].endpoint = "process_files"
       THEN req[r].response[1].kind = "Response"
       ELSE req[r].response[1].kind = "JSON" /\ req[r].response[1].status = 200

\* The handler of request r answered before creating a session.
RejectedEarly(r) == req[r].pc = "done" /\ req[r].session_dir = None

\* C24: of the same request sent to process_files and to
\* process_files_json, either both are rejected before a session is
\* created or neither is, and when execute returns the same result to both
\* (the external process behaving alike) either both report success or
\* neither does.
C24_EndpointsAgree ==
    (req[1].pc = "done" /\ req[2].pc = "done") =>
        /\ RejectedEarly(1) <=> RejectedEarly(2)
        /\ req[1].result = req[2].result => (Accepted(1) <=> Accepted(2))

====
